---- MODULE Spec2Model ----
(***************************************************************************)
(* Link-prediction pipeline of                                             *)
(* Graph_Convolutional_Prediction_of_Protein_Interactions.ipynb:           *)
(* load_data, mask_test_edges, preprocess_graph, Optimizer.__init__,       *)
(* the training loop of the last code cell and get_roc_score.              *)
(*                                                                         *)
(* A matrix is a function of the row index giving a function of the column *)
(* index.  Python list indices are 0-based and TLA+ sequences 1-based, so  *)
(* edges[k] of the notebook is                                             *)
(* edges[k + 1] here.  Random draws (np.random.shuffle, np.random.randint) *)
(* and the loss value returned by the TensorFlow session are               *)
(* nondeterministic choices.                                               *)
(***************************************************************************)
EXTENDS Integers, Sequences, FiniteSets, TLC

(* ------------------------------ bounds -------------------------------- *)
\* node counts of the enumerated small input graphs: 1..SmallN
SmallN == 3
\* node count of the enumerated dense input graphs (complete graph minus a few edges)
BigN == 11
\* up to this many edges are removed from the complete graph on BigN nodes
MaxMissing == 2
\* np.random.shuffle is explored for the outcomes whose leading indices are < MaxPick
MaxPick == 2
\* FLAGS.epochs ranges over 0..MaxEpochs
MaxEpochs == 2
\* get_roc_score is applied to edge lists of length 0..MaxRocLen
MaxRocLen == 2
\* preprocess_graph is applied to every undirected graph on 1..NormN nodes
NormN == 4
\* the resolution of the enclosures of real numbers: units of 1/Scale
Scale == 1000
\* the softplus sums of the cross entropy range over 0..MaxSoftplus
MaxSoftplus == 2
\* node count of the input graph whose held-out sets have two edges each
WideN == 15

(* -------------------------- program constants -------------------------- *)
\* np.floor(edges.shape[0] / 50.)
SplitDiv == 50
\* losses are counted in units of 0.0005: the literal 0.001 of the loop condition
LossThreshold == 2
\* temp_train_loss = 1.0 in the same units
InitLoss == 2000
\* flags.DEFINE_float('dropout', 0.1, ...) in tenths
DropoutDefault == 1

\* the losses the session may report: just below, at and just above the threshold
LossValues == {LossThreshold - 1, LossThreshold, LossThreshold + 1}

(* --------------------------- matrix helpers ---------------------------- *)
\* An n x n matrix M is a function of the row index giving a function of the column
\* index: M[i][j], 0 <= i, j < n.
Nodes(n) == 0 .. (n - 1)

Idx(n) == Nodes(n) \X Nodes(n)

\* a matrix that is not computed yet
NoMatrix == <<>>

RECURSIVE SumTo(_, _)
\* f[0] + ... + f[k - 1]
SumTo(f, k) == IF k = 0 THEN 0 ELSE f[k - 1] + SumTo(f, k - 1)

\* M.sum()
MatSum(M, n) == SumTo([i \in Nodes(n) |-> SumTo(M[i], n)], n)

\* sp.eye(n)
Eye(n) == [i \in Nodes(n) |-> [j \in Nodes(n) |-> IF i = j THEN 1 ELSE 0]]

\* M.T
Transpose(M) == [i \in DOMAIN M |-> [j \in DOMAIN M |-> M[j][i]]]

MatAdd(A, B) == [i \in DOMAIN A |-> [j \in DOMAIN A |-> A[i][j] + B[i][j]]]

\* adj - sp.dia_matrix((adj.diagonal()[np.newaxis, :], [0])); adj.eliminate_zeros()
StripDiagonal(M) ==
    [i \in DOMAIN M |-> [j \in DOMAIN M |-> IF i = j THEN M[i][j] - M[i][i] ELSE M[i][j]]]

\* sp.triu(adj): the entries on and above the diagonal
Triu(M) == [i \in DOMAIN M |-> [j \in DOMAIN M |-> IF i <= j THEN M[i][j] ELSE 0]]

\* the stored entries of row i, by increasing column
RowCoords(M, n, i) ==
    LET J == {j \in Nodes(n) : M[i][j] # 0}
    IN  [m \in 1 .. Cardinality(J) |->
            <<i, CHOOSE j \in J : Cardinality({x \in J : x < j}) = m - 1>>]

RECURSIVE CoordsFrom(_, _, _)
CoordsFrom(M, n, i) == IF i = n THEN <<>> ELSE RowCoords(M, n, i) \o CoordsFrom(M, n, i + 1)

\* sparse_to_tuple(M)[0]: the coordinates of the stored entries, in row-major order
Coords(M, n) == CoordsFrom(M, n, 0)

\* num_test = num_val = int(np.floor(edges.shape[0] / 50.))
NumHeldOut(E) == E \div SplitDiv

(* ------------------------------ load_data ------------------------------ *)
\* unordered node pairs, self-loops included
UPairs(n) == {p \in Idx(n) : p[1] <= p[2]}

\* nx.adjacency_matrix of the undirected graph with edge set S
AdjacencyOf(n, S) ==
    [i \in Nodes(n) |-> [j \in Nodes(n) |-> IF <<i, j>> \in S \/ <<j, i>> \in S THEN 1 ELSE 0]]

\* nx.read_edgelist creates a node only for an edge line, so every node has an entry
Covered(n, S) == \A v \in Nodes(n) : \E p \in S : p[1] = v \/ p[2] = v

SmallGraphs ==
    {[n |-> n, adj |-> AdjacencyOf(n, S)] :
        <<n, S>> \in {q \in UNION {{n} \X SUBSET UPairs(n) : n \in 1 .. SmallN} :
                         Covered(q[1], q[2])}}

\* the k-th edge that may be missing from the complete graph: a path from its last node
Removable(k) == <<BigN - 1 - k, BigN - k>>

\* the complete graph on BigN nodes without its first m removable edges, m = 0..MaxMissing
DenseGraphs ==
    {[n |-> BigN,
      adj |-> AdjacencyOf(BigN, {p \in UPairs(BigN) : p[1] < p[2]}
                                  \ {Removable(k) : k \in 1 .. m})] :
        m \in 0 .. MaxMissing}

\* a graph with enough edges for two held-out edges per set: the complete graph on WideN
\* nodes without as many path edges as test negatives are needed
WideGraph ==
    LET complete == {p \in UPairs(WideN) : p[1] < p[2]}
    IN  [n |-> WideN,
         adj |-> AdjacencyOf(WideN, complete \ {<<WideN - 1 - k, WideN - k>> :
                                                    k \in 1 .. NumHeldOut(Cardinality(complete))})]

\* the adjacency matrices load_data returns that the model enumerates
LoadableGraphs == SmallGraphs \cup DenseGraphs

(* --------------------------- mask_test_edges --------------------------- *)
\* edges = sparse_to_tuple(sp.triu(adj))[0] after the diagonal is removed
EdgesOf(M, n) == Coords(Triu(StripDiagonal(M)), n)

\* edges_all = sparse_to_tuple(adj)[0] after the diagonal is removed
EdgesAllOf(M, n) == Coords(StripDiagonal(M), n)

\* the ismember closure: some row of b equals a
ismember(a, b) == \E k \in 1 .. Len(b) : b[k] = a

\* edges[idx] for a list idx of 0-based indices
Take(s, idx) == [k \in 1 .. Len(idx) |-> s[idx[k] + 1]]

\* NpDelete that removes only the first listed index
NpDeleteFirstOnly(s, idx) ==
    [m \in 1 .. (Len(s) - (IF idx = <<>> THEN 0 ELSE 1)) |->
        IF idx # <<>> /\ m > idx[1] THEN s[m + 1] ELSE s[m]]

\* np.delete(edges, idx, axis=0): the rows whose 0-based index is not in idx, in order
NpDelete(s, idx) ==
    LET drop == {idx[k] : k \in 1 .. Len(idx)} \cap (0 .. (Len(s) - 1))
    IN  [m \in 1 .. (Len(s) - Cardinality(drop)) |->
            s[CHOOSE k \in 1 .. Len(s) :
                /\ (k - 1) \notin drop
                /\ k - Cardinality({d \in drop : d < k - 1}) = m]]

\* all_edge_idx[a:b] of the shuffled index list
Slice(s, a, b) == [k \in 1 .. (b - a) |-> s[a + k]]

\* np.random.shuffle(all_edge_idx): the leading m entries of the shuffled index list
\* (the entries after them are never read); the explored outcomes draw the first MaxPick
\* entries among the indices below MaxPick and leave the later entries in place
ShufflePrefixes(E, m) ==
    LET head == IF m < MaxPick THEN m ELSE MaxPick
        pick == {i \in 0 .. (E - 1) : i < MaxPick}
    IN  {[k \in 1 .. m |-> IF k <= head THEN h[k] ELSE k - 1] :
            h \in {g \in [1 .. head -> pick] : \A a, b \in 1 .. head : a # b => g[a] # g[b]}}

\* TestRejects without the test of the reversed pair against test_edges_false
TestRejectsExactOnly(i, j, edges_all, tef) ==
    \/ i = j
    \/ ismember(<<i, j>>, edges_all)
    \/ tef # <<>> /\ ismember(<<i, j>>, tef)

\* the three rejection tests of the test-negative loop
TestRejects(i, j, edges_all, tef) ==
    \/ i = j
    \/ ismember(<<i, j>>, edges_all)
    \/ tef # <<>> /\ (ismember(<<j, i>>, tef) \/ ismember(<<i, j>>, tef))

\* the six rejection tests of the validation-negative loop
ValRejects(i, j, tr, va, vef) ==
    \/ i = j
    \/ ismember(<<i, j>>, tr)
    \/ ismember(<<j, i>>, tr)
    \/ ismember(<<i, j>>, va)
    \/ ismember(<<j, i>>, va)
    \/ vef # <<>> /\ (ismember(<<j, i>>, vef) \/ ismember(<<i, j>>, vef))

\* sp.csr_matrix((np.ones, (train_edges[:, 0], train_edges[:, 1])), shape): duplicates add up
CsrOfEdges(tr, n) ==
    [i \in Nodes(n) |-> [j \in Nodes(n) |-> Cardinality({k \in 1 .. Len(tr) : tr[k] = <<i, j>>})]]

\* RebuildAdj without the symmetrization
RebuildAdjUpperOnly(tr, n) == CsrOfEdges(tr, n)

\* adj_train = adj_train + adj_train.T
RebuildAdj(tr, n) == MatAdd(CsrOfEdges(tr, n), Transpose(CsrOfEdges(tr, n)))

(* --------------------------- preprocess_graph -------------------------- *)
\* A normalized entry num / sqrt(rad) is kept exactly as the pair (num, rad), rad > 0.
Exact(M) == [i \in DOMAIN M |-> [j \in DOMAIN M |-> [num |-> M[i][j], rad |-> 1]]]

\* rowsum = np.array(adj_.sum(1))
RowSums(M, n) == [i \in Nodes(n) |-> SumTo(M[i], n)]

\* M.dot(sp.diags(np.power(rowsum, -0.5))): column j is multiplied by rowsum[j] ^ -0.5
DotInvSqrt(M, rowsum) ==
    [i \in DOMAIN M |-> [j \in DOMAIN M |->
        [num |-> M[i][j].num, rad |-> M[i][j].rad * rowsum[j]]]]

\* preprocess_graph without the transpose: both scalings hit the columns
preprocess_graph_columns(A, n) ==
    LET adj_ == MatAdd(A, Eye(n))
        rowsum == RowSums(adj_, n)
    IN  DotInvSqrt(DotInvSqrt(Exact(adj_), rowsum), rowsum)

\* adj_.dot(degree_mat_inv_sqrt).transpose().dot(degree_mat_inv_sqrt)
preprocess_graph(A, n) ==
    LET adj_ == MatAdd(A, Eye(n))
        rowsum == RowSums(adj_, n)
    IN  DotInvSqrt(Transpose(DotInvSqrt(Exact(adj_), rowsum)), rowsum)

\* comparisons of exact entries (num >= 0 throughout)
EntryEq(x, y) == x.num * x.num * y.rad = y.num * y.num * x.rad

EntryIsOne(x) == x.num > 0 /\ x.num * x.num = x.rad

EntryInUnit(x) == x.num >= 0 /\ x.num * x.num <= x.rad

(* ------------- preprocess_graph on a matrix of real entries ------------ *)
\* real numbers are enclosed in intervals [lo, hi] counted in units of 1/Scale;
\* an interval with lo = hi is that number exactly
RECURSIVE MaxRoot(_, _, _, _)
\* the largest r in lo .. hi with r * r * rad <= sq
MaxRoot(lo, hi, rad, sq) ==
    IF lo = hi THEN lo
    ELSE LET mid == (lo + hi + 1) \div 2
         IN  IF mid * mid * rad <= sq THEN MaxRoot(mid, hi, rad, sq)
             ELSE MaxRoot(lo, mid - 1, rad, sq)

\* the value num / sqrt(rad) of an entry of the normalized matrix, enclosed
Enclose(x) ==
    LET sq == x.num * Scale * x.num * Scale
        below == MaxRoot(0, x.num * Scale, x.rad, sq)
    IN  [lo |-> below, hi |-> IF below * below * x.rad = sq THEN below ELSE below + 1]

\* sp.coo_matrix(adj): the matrix of the values of the normalized entries
CooOfNormalized(X, n) == [i \in Nodes(n) |-> [j \in Nodes(n) |-> Enclose(X[i][j])]]

\* adj + sp.eye(adj.shape[0]) on enclosed values
RealAddEye(R, n) ==
    [i \in Nodes(n) |-> [j \in Nodes(n) |->
        [lo |-> R[i][j].lo + Eye(n)[i][j] * Scale, hi |-> R[i][j].hi + Eye(n)[i][j] * Scale]]]

\* np.array(adj_.sum(1)) on enclosed values
RealRowSums(R, n) ==
    [i \in Nodes(n) |-> [lo |-> SumTo([j \in Nodes(n) |-> R[i][j].lo], n),
                          hi |-> SumTo([j \in Nodes(n) |-> R[i][j].hi], n)]]

\* M.dot(sp.diags(np.power(rowsum, -0.5))): column j is divided by sqrt(rowsum[j]);
\* the radicand is a product of positive row sums, in units of 1/Scale each
RealDotInvSqrt(M, rowsum) ==
    [i \in DOMAIN M |-> [j \in DOMAIN M[i] |->
        [num |-> M[i][j].num,
         rad |-> [lo |-> M[i][j].rad.lo * rowsum[j].lo, hi |-> M[i][j].rad.hi * rowsum[j].hi]]]]

\* an enclosed matrix as quotients num / sqrt(1)
RealExact(R) == [i \in DOMAIN R |-> [j \in DOMAIN R[i] |-> [num |-> R[i][j], rad |-> [lo |-> 1, hi |-> 1]]]]

\* preprocess_graph_real without "+ sp.eye(adj.shape[0])"
preprocess_graph_real_no_eye(X, n) ==
    LET adj_ == CooOfNormalized(X, n)
        rowsum == RealRowSums(adj_, n)
    IN  RealDotInvSqrt(Transpose(RealDotInvSqrt(RealExact(adj_), rowsum)), rowsum)

\* preprocess_graph applied to the matrix that preprocess_graph returned: every entry is
\* num / sqrt(rad) with num in units of 1/Scale and rad in units of 1/Scale^2
preprocess_graph_real(X, n) ==
    LET adj_ == RealAddEye(CooOfNormalized(X, n), n)
        rowsum == RealRowSums(adj_, n)
    IN  RealDotInvSqrt(Transpose(RealDotInvSqrt(RealExact(adj_), rowsum)), rowsum)

\* the exact entry x and the enclosed entry y are certainly different numbers
EntryDiffers(x, y) ==
    \/ x.num * x.num * y.rad.hi < y.num.lo * y.num.lo * x.rad
    \/ x.num * x.num * y.rad.lo > y.num.hi * y.num.hi * x.rad

\* the exact entry x and the enclosed entry y are certainly the same number
EntrySame(x, y) ==
    /\ y.num.lo = y.num.hi
    /\ y.rad.lo = y.rad.hi
    /\ x.num * x.num * y.rad.lo = y.num.lo * y.num.lo * x.rad

(* -------------------------- Optimizer.__init__ ------------------------- *)
\* PosWeight with num_nodes where the code has num_nodes**2
PosWeightLinear(N, E) == [num |-> N - E, den |-> E]

\* pos_weight = float(num_nodes**2 - num_edges) / num_edges, as a fraction
PosWeight(N, E) == [num |-> N * N - E, den |-> E]

\* norm = num_nodes**2 / float((num_nodes**2 - num_edges) * 2), as a fraction
Norm(N, E) == [num |-> N * N, den |-> (N * N - E) * 2]

\* the sums of the softplus terms of the cross entropy over the entries with label 1
\* and over the entries with label 0: non-negative for every parameter state
SoftplusSums == 0 .. MaxSoftplus

\* cost = norm * reduce_mean(weighted_cross_entropy_with_logits(logits, targets, pos_weight))
\* as a fraction: pos_weight scales the sum a of the label-1 terms, b is the sum of the others
Cost(o, a, b, N) ==
    [num |-> o.norm.num * (o.pos_weight.num * a + o.pos_weight.den * b),
     den |-> o.norm.den * o.pos_weight.den * N * N]

(* ---------------------------- get_roc_score ---------------------------- *)
\* preds / preds_neg: one score per edge, kept as the edge it was read at and its list
Scores(kind, es) == [k \in 1 .. Len(es) |-> [kind |-> kind, e |-> es[k]]]

\* labels_all = np.hstack([np.ones(len(preds)), np.zeros(len(preds))])
RocLabels(preds, preds_neg) ==
    [k \in 1 .. Len(preds) |-> 1] \o [k \in 1 .. Len(preds) |-> 0]

\* roc_auc_score / average_precision_score raise ValueError on vectors of different
\* length and on labels that hold a single class
RocDefined(labels, preds) ==
    /\ Len(labels) = Len(preds)
    /\ \E k \in 1 .. Len(labels) : labels[k] = 1
    /\ \E k \in 1 .. Len(labels) : labels[k] = 0

(* ------------------------------ feed_dict ------------------------------ *)
\* the global feed_dict is unbound until the loop body runs once
UnboundFeed == [bound |-> FALSE, keys |-> {}, dropout |-> 0]

\* construct_feed_dict: a fresh dict with the three matrix placeholders
construct_feed_dict == [bound |-> TRUE, keys |-> {"features", "adj", "adj_orig"}, dropout |-> 0]

\* feed_dict.update({placeholders['dropout']: rate})
SetDropout(fd, rate) == [fd EXCEPT !.keys = @ \cup {"dropout"}, !.dropout = rate]

\* the dropout a sess.run sees: tf.placeholder_with_default(0., shape=())
FedDropout(fd) == IF "dropout" \in fd.keys THEN fd.dropout ELSE 0

(* ------------------------------ sess.run ------------------------------- *)
\* the fetches of the training run: sess.run([opt.opt_op, opt.cost], ...)
TrainFetches == {"opt_op", "cost"}

\* RocFetches that also fetches the optimizer step
RocFetchesWithStep == {"embeddings", "opt_op"}

\* the fetches of get_roc_score: sess.run(model.embeddings, ...)
RocFetches == {"embeddings"}

\* a run changes the weight variables iff it fetches opt_op = optimizer.minimize(cost):
\* w counts the updates applied since the initializer ran
RunOn(w, fetches) == IF "opt_op" \in fetches THEN w + 1 ELSE w

(* ---------------------------- training loop ---------------------------- *)
\* LoopContinues without the loss test
LoopContinuesEpochsOnly(ep, epochs, loss) == ep < epochs

\* while (epoch < FLAGS.epochs) and (temp_train_loss > 0.001)
LoopContinues(ep, epochs, loss) == ep < epochs /\ loss > LossThreshold

\* TrainFeed that builds the dictionary once and reuses it in later epochs
TrainFeedOnce(fd, rate) == IF fd.bound THEN fd ELSE SetDropout(construct_feed_dict, rate)

\* the construction of the feed dictionary at the head of the loop body
TrainFeed(fd, rate) == SetDropout(construct_feed_dict, rate)

\* NegLoopContinues that stops one negative short
NegLoopContinuesShort(neg, pos) == Len(neg) + 1 < Len(pos)

\* while len(test_edges_false) < len(test_edges) / while len(val_edges_false) < len(val_edges)
NegLoopContinues(neg, pos) == Len(neg) < Len(pos)

(* -------------------------------- state -------------------------------- *)
VARIABLES
    pc,                 \* position in the notebook
    FLAGS_epochs,       \* FLAGS.epochs
    FLAGS_dropout,      \* FLAGS.dropout, in tenths
    num_nodes,          \* adj.shape[0]
    adj,                \* the global adj: the loaded matrix, then adj_train
    adj_orig,           \* the loaded matrix without its diagonal
    num_edges,          \* adj.sum() of the loaded matrix
    train_edges, val_edges, test_edges,
    test_edges_false, val_edges_false,
    n_left,             \* iterations left in the running for-loop over a batch of draws
    adj_train, adj_norm, adj_label,
    opt,                \* pos_weight and norm of the Optimizer
    epoch, temp_train_loss,
    avg_costs,          \* the avg_cost of every optimizer step so far, oldest first
    feed_dict,
    last_run,           \* the latest sess.run: what it computed and the dropout it was fed
    labels_all, preds_all,
    adj_twice,          \* preprocess_graph applied to the matrix of adj_norm
    weights             \* the number of updates applied to the model's weight variables

vars == <<pc, FLAGS_epochs, FLAGS_dropout, num_nodes, adj, adj_orig, num_edges,
          train_edges, val_edges, test_edges, test_edges_false, val_edges_false, n_left,
          adj_train, adj_norm, adj_label, opt, epoch, temp_train_loss, avg_costs,
          feed_dict, last_run, labels_all, preds_all, adj_twice, weights>>

splitVars == <<train_edges, val_edges, test_edges, test_edges_false, val_edges_false, n_left>>

graphVars == <<num_nodes, adj, adj_orig, num_edges>>

flagVars == <<FLAGS_epochs, FLAGS_dropout>>

loopVars == <<epoch, temp_train_loss, avg_costs, feed_dict, last_run, labels_all, preds_all,
              weights>>

NoRun == [op |-> "none", dropout |-> 0, edges_pos |-> <<>>, edges_neg |-> <<>>]

NoOptimizer == [built |-> FALSE, pos_weight |-> [num |-> 0, den |-> 1],
                norm |-> [num |-> 0, den |-> 1]]

\* everything the notebook has not assigned yet
Unassigned ==
    /\ train_edges = <<>> /\ val_edges = <<>> /\ test_edges = <<>>
    /\ test_edges_false = <<>> /\ val_edges_false = <<>> /\ n_left = 0
    /\ adj_train = NoMatrix /\ adj_norm = NoMatrix /\ adj_label = NoMatrix
    /\ opt = NoOptimizer
    /\ epoch = 0 /\ temp_train_loss = InitLoss /\ avg_costs = <<>>
    /\ feed_dict = UnboundFeed /\ last_run = NoRun
    /\ labels_all = <<>> /\ preds_all = <<>>
    /\ adj_twice = NoMatrix /\ weights = 0

\* the flags cell and the head of the data cell: adj, num_nodes, num_edges, adj_orig
Init ==
    /\ pc = "mask"
    /\ FLAGS_epochs \in 0 .. MaxEpochs
    /\ FLAGS_dropout \in {0, DropoutDefault}
    /\ \E g \in LoadableGraphs :
          /\ num_nodes = g.n
          /\ adj = g.adj
          /\ num_edges = MatSum(g.adj, g.n)
          /\ adj_orig = StripDiagonal(g.adj)
    /\ Unassigned

(* ------------------------ mask_test_edges, steps ----------------------- *)
\* where mask_test_edges continues once the test-negative for-loop has left `left`
\* iterations and the lists are tef (test negatives) and vef (validation negatives)
AfterTestNeg(left, tef, te, va) ==
    IF left > 0 THEN [pc |-> "test_neg", n |-> left]
    ELSE IF NegLoopContinues(tef, te) THEN [pc |-> "test_neg", n |-> Len(te) - Len(tef)]
    ELSE IF NegLoopContinues(<<>>, va) THEN [pc |-> "val_neg", n |-> Len(va)]
    ELSE [pc |-> "rebuild", n |-> 0]

AfterValNeg(left, vef, va) ==
    IF left > 0 THEN [pc |-> "val_neg", n |-> left]
    ELSE IF NegLoopContinues(vef, va) THEN [pc |-> "val_neg", n |-> Len(va) - Len(vef)]
    ELSE [pc |-> "rebuild", n |-> 0]

\* from the diagonal removal to train_edges = np.delete(...)
SplitEdges ==
    /\ pc = "mask"
    /\ LET edges == EdgesOf(adj, num_nodes)
           num_test == NumHeldOut(Len(edges))
           num_val == NumHeldOut(Len(edges))
       IN  \E all_edge_idx \in ShufflePrefixes(Len(edges), num_val + num_test) :
             LET val_edge_idx == Slice(all_edge_idx, 0, num_val)
                 test_edge_idx == Slice(all_edge_idx, num_val, num_val + num_test)
                 nxt == AfterTestNeg(0, <<>>, Take(edges, test_edge_idx),
                                     Take(edges, val_edge_idx))
             IN  /\ test_edges' = Take(edges, test_edge_idx)
                 /\ val_edges' = Take(edges, val_edge_idx)
                 /\ train_edges' = NpDelete(edges, test_edge_idx \o val_edge_idx)
                 /\ pc' = nxt.pc
                 /\ n_left' = nxt.n
    /\ UNCHANGED <<test_edges_false, val_edges_false, adj_train, adj_norm, adj_label, opt>>
    /\ UNCHANGED <<graphVars, flagVars, adj_twice, loopVars>>

\* one iteration of the for-loop of the test-negative sampling, on the drawn pair
TestNegIter ==
    /\ pc = "test_neg"
    /\ LET edges_all == EdgesAllOf(adj, num_nodes) IN
       \E idx_i, idx_j \in Nodes(num_nodes) :
          LET tef == IF TestRejects(idx_i, idx_j, edges_all, test_edges_false)
                     THEN test_edges_false
                     ELSE Append(test_edges_false, <<idx_i, idx_j>>)
              nxt == AfterTestNeg(n_left - 1, tef, test_edges, val_edges)
          IN  /\ test_edges_false' = tef
              /\ pc' = nxt.pc
              /\ n_left' = nxt.n
    /\ UNCHANGED <<train_edges, val_edges, test_edges, val_edges_false>>
    /\ UNCHANGED <<adj_train, adj_norm, adj_label, opt, graphVars, flagVars, adj_twice, loopVars>>

\* one iteration of the for-loop of the validation-negative sampling
ValNegIter ==
    /\ pc = "val_neg"
    /\ \E idx_i, idx_j \in Nodes(num_nodes) :
          LET vef == IF ValRejects(idx_i, idx_j, train_edges, val_edges, val_edges_false)
                     THEN val_edges_false
                     ELSE Append(val_edges_false, <<idx_i, idx_j>>)
              nxt == AfterValNeg(n_left - 1, vef, val_edges)
          IN  /\ val_edges_false' = vef
              /\ pc' = nxt.pc
              /\ n_left' = nxt.n
    /\ UNCHANGED <<train_edges, val_edges, test_edges, test_edges_false>>
    /\ UNCHANGED <<adj_train, adj_norm, adj_label, opt, graphVars, flagVars, adj_twice, loopVars>>

\* the rebuild of adj_train and the return; then adj = adj_train and
\* adj_norm = preprocess_graph(adj) of the data cell
Rebuild ==
    /\ pc = "rebuild"
    /\ adj_train' = RebuildAdj(train_edges, num_nodes)
    /\ adj' = adj_train'
    /\ adj_norm' = preprocess_graph(adj_train', num_nodes)
    /\ pc' = "optimizer"
    /\ UNCHANGED <<num_nodes, adj_orig, num_edges, adj_label, opt>>
    /\ UNCHANGED <<splitVars, flagVars, adj_twice, loopVars>>

(* ------------------- optimizer, session, training loop ----------------- *)
\* the model cell: Optimizer(..., num_nodes=num_nodes, num_edges=num_edges);
\* the division of norm raises ZeroDivisionError on a zero denominator
BuildOptimizer ==
    /\ pc = "optimizer"
    /\ IF Norm(num_nodes, num_edges).den = 0
       THEN pc' = "error" /\ opt' = opt
       ELSE /\ pc' = "session"
            /\ opt' = [built |-> TRUE, pos_weight |-> PosWeight(num_nodes, num_edges),
                       norm |-> Norm(num_nodes, num_edges)]
    /\ UNCHANGED <<adj_train, adj_norm, adj_label>>
    /\ UNCHANGED <<graphVars, splitVars, flagVars, adj_twice, loopVars>>

\* the head of the training cell: sess.run(tf.global_variables_initializer()),
\* adj_label, epoch = 0, temp_train_loss = 1.0
InitSession ==
    /\ pc = "session"
    /\ weights' = 0
    /\ adj_label' = MatAdd(adj_train, Eye(num_nodes))
    /\ epoch' = 0
    /\ temp_train_loss' = InitLoss
    /\ pc' = "loop"
    /\ UNCHANGED <<adj_train, adj_norm, opt, avg_costs, feed_dict, last_run, labels_all, preds_all>>
    /\ UNCHANGED <<graphVars, splitVars, flagVars, adj_twice>>

\* the loop body up to the optimizer step: feed_dict, dropout, sess.run([opt.opt_op, opt.cost])
TrainStep ==
    /\ pc = "loop"
    /\ LoopContinues(epoch, FLAGS_epochs, temp_train_loss)
    /\ feed_dict' = TrainFeed(feed_dict, FLAGS_dropout)
    /\ last_run' = [op |-> "train", dropout |-> FedDropout(feed_dict'),
                    edges_pos |-> <<>>, edges_neg |-> <<>>]
    /\ \E avg_cost \in LossValues : avg_costs' = Append(avg_costs, avg_cost)
    /\ weights' = RunOn(weights, TrainFetches)
    /\ pc' = "val"
    /\ UNCHANGED <<adj_train, adj_norm, adj_label, opt, epoch, temp_train_loss,
                   labels_all, preds_all>>
    /\ UNCHANGED <<graphVars, splitVars, flagVars, adj_twice>>

\* get_roc_score(edges_pos, edges_neg), called for `op`; ok is whether it returned
GetRocScore(op, edges_pos, edges_neg, ok) ==
    IF ~feed_dict.bound
    THEN \* NameError: feed_dict is assigned only in the loop body
         /\ ok = FALSE
         /\ UNCHANGED <<feed_dict, last_run, labels_all, preds_all, weights>>
    ELSE /\ feed_dict' = SetDropout(feed_dict, 0)
         /\ weights' = RunOn(weights, RocFetches)
         /\ last_run' = [op |-> op, dropout |-> FedDropout(feed_dict'),
                         edges_pos |-> edges_pos, edges_neg |-> edges_neg]
         /\ preds_all' = Scores("pos", edges_pos) \o Scores("neg", edges_neg)
         /\ labels_all' = RocLabels(Scores("pos", edges_pos), Scores("neg", edges_neg))
         /\ ok = RocDefined(labels_all', preds_all')

\* the rest of the loop body: validation scoring, epoch + 1, temp_train_loss = avg_cost
ValScore ==
    /\ pc = "val"
    /\ \E ok \in BOOLEAN :
          /\ GetRocScore("val", val_edges, val_edges_false, ok)
          /\ IF ok
             THEN /\ epoch' = epoch + 1
                  /\ temp_train_loss' = avg_costs[Len(avg_costs)]
                  /\ pc' = "loop"
             ELSE /\ pc' = "error"
                  /\ UNCHANGED <<epoch, temp_train_loss>>
    /\ UNCHANGED <<adj_train, adj_norm, adj_label, opt, avg_costs>>
    /\ UNCHANGED <<graphVars, splitVars, flagVars, adj_twice>>

\* after the loop: get_roc_score(test_edges, test_edges_false)
TestScore ==
    /\ pc = "loop"
    /\ ~LoopContinues(epoch, FLAGS_epochs, temp_train_loss)
    /\ \E ok \in BOOLEAN :
          /\ GetRocScore("test", test_edges, test_edges_false, ok)
          /\ pc' = IF ok THEN "done" ELSE "error"
    /\ UNCHANGED <<adj_train, adj_norm, adj_label, opt, epoch, temp_train_loss, avg_costs>>
    /\ UNCHANGED <<graphVars, splitVars, flagVars, adj_twice>>

Next ==
    \/ SplitEdges
    \/ TestNegIter
    \/ ValNegIter
    \/ Rebuild
    \/ BuildOptimizer
    \/ InitSession
    \/ TrainStep
    \/ ValScore
    \/ TestScore

Spec == Init /\ [][Next]_vars

(* ----------- mask_test_edges with batches of two random draws ---------- *)
InitSplit ==
    /\ pc = "mask"
    /\ FLAGS_epochs = 0
    /\ FLAGS_dropout = DropoutDefault
    /\ num_nodes = WideGraph.n
    /\ adj = WideGraph.adj
    /\ num_edges = MatSum(WideGraph.adj, WideGraph.n)
    /\ adj_orig = StripDiagonal(WideGraph.adj)
    /\ Unassigned

NextSplit ==
    \/ SplitEdges
    \/ TestNegIter
    \/ ValNegIter
    \/ Rebuild

SpecSplit == InitSplit /\ [][NextSplit]_vars

(* ------------------- preprocess_graph on any graph --------------------- *)
\* the undirected graphs without self-loops on 1..NormN nodes
PlainGraphs ==
    {[n |-> q[1], adj |-> AdjacencyOf(q[1], q[2])] :
        q \in UNION {{n} \X SUBSET {p \in UPairs(n) : p[1] < p[2]} : n \in 1 .. NormN}}

InitNorm ==
    /\ pc = "norm"
    /\ FLAGS_epochs = 0
    /\ FLAGS_dropout = DropoutDefault
    /\ \E g \in PlainGraphs :
          /\ num_nodes = g.n
          /\ adj = g.adj
          /\ num_edges = MatSum(g.adj, g.n)
          /\ adj_orig = StripDiagonal(g.adj)
    /\ Unassigned

\* adj_norm = preprocess_graph(adj)
Normalize ==
    /\ pc = "norm"
    /\ adj_norm' = preprocess_graph(adj, num_nodes)
    /\ pc' = "normalized"
    /\ UNCHANGED <<adj_train, adj_label, opt, graphVars, splitVars, flagVars, adj_twice, loopVars>>

\* preprocess_graph applied to the matrix built from the result of the first call
NormalizeAgain ==
    /\ pc = "normalized"
    /\ adj_twice' = preprocess_graph_real(adj_norm, num_nodes)
    /\ pc' = "renormalized"
    /\ UNCHANGED <<adj_train, adj_norm, adj_label, opt, graphVars, splitVars, flagVars, loopVars>>

NextNorm == Normalize \/ NormalizeAgain

SpecNorm == InitNorm /\ [][NextNorm]_vars

(* ------------------- get_roc_score on any edge lists ------------------- *)
\* the edge lists of length 0..MaxRocLen over two nodes
EdgeLists == UNION {[1 .. k -> Idx(2)] : k \in 0 .. MaxRocLen}

\* a session whose loop body has run: feed_dict is bound and holds the training dropout
InitRoc ==
    /\ pc = "roc"
    /\ FLAGS_epochs = 1
    /\ FLAGS_dropout \in {0, DropoutDefault}
    /\ num_nodes = 2
    /\ adj = AdjacencyOf(2, {<<0, 1>>})
    /\ num_edges = 2
    /\ adj_orig = adj
    /\ train_edges = <<>> /\ val_edges = <<>> /\ test_edges = <<>>
    /\ test_edges_false = <<>> /\ val_edges_false = <<>> /\ n_left = 0
    /\ adj_train = NoMatrix /\ adj_norm = NoMatrix /\ adj_label = NoMatrix
    /\ opt = NoOptimizer
    /\ epoch = 0 /\ temp_train_loss = InitLoss /\ avg_costs = <<>>
    /\ feed_dict = TrainFeed(UnboundFeed, FLAGS_dropout)
    /\ last_run = NoRun
    /\ labels_all = <<>> /\ preds_all = <<>>
    /\ adj_twice = NoMatrix /\ weights = 0

\* get_roc_score(edges_pos, edges_neg) on arbitrary arguments
RocCall ==
    /\ pc = "roc"
    /\ \E edges_pos, edges_neg \in EdgeLists : \E ok \in BOOLEAN :
          /\ GetRocScore("score", edges_pos, edges_neg, ok)
          /\ pc' = IF ok THEN "scored" ELSE "error"
    /\ UNCHANGED <<adj_train, adj_norm, adj_label, opt, epoch, temp_train_loss, avg_costs>>
    /\ UNCHANGED <<graphVars, splitVars, flagVars, adj_twice>>

NextRoc == RocCall

SpecRoc == InitRoc /\ [][NextRoc]_vars

(* ------------------------------- claims -------------------------------- *)
Rng(s) == {s[k] : k \in 1 .. Len(s)}

Reverse(p) == <<p[2], p[1]>>

\* mask_test_edges has returned
Returned == pc \in {"optimizer", "session", "loop", "val", "done", "error"}

\* the unique undirected edges of the input: the upper triangle without the diagonal
InputEdges == {p \in UPairs(num_nodes) : p[1] < p[2] /\ adj_orig[p[1]][p[2]] # 0}

Positives == Rng(train_edges) \cup Rng(val_edges) \cup Rng(test_edges)

\* C1: after mask_test_edges returns, no pair of val_edges_false or test_edges_false
\* is, in either orientation, a member of train_edges, val_edges or test_edges.
C1_NegativesAvoidPositives ==
    Returned =>
        \A p \in Rng(val_edges_false) \cup Rng(test_edges_false) :
            p \notin Positives /\ Reverse(p) \notin Positives

\* C2: on return, val_edges, val_edges_false, test_edges and test_edges_false all have
\* floor(E / 50) entries, E the number of unique undirected input edges, and none of
\* them is empty when E >= 50.
C2_SplitSizes ==
    Returned =>
        LET k == Cardinality(InputEdges) \div SplitDiv
        IN  /\ Len(val_edges) = k /\ Len(val_edges_false) = k
            /\ Len(test_edges) = k /\ Len(test_edges_false) = k
            /\ (Cardinality(InputEdges) >= SplitDiv =>
                    /\ val_edges # <<>> /\ val_edges_false # <<>>
                    /\ test_edges # <<>> /\ test_edges_false # <<>>)

C2_Witness ==
    /\ Returned
    /\ Cardinality(InputEdges) >= SplitDiv
    /\ Len(val_edges_false) = 1 /\ Len(test_edges_false) = 1

\* C3: when floor(E / 50) = 0 the split does not return normally with empty validation
\* and test sets (it ends in an InsufficientEdgesError instead).
C3_TooFewEdgesIsAnError ==
    ~(/\ Cardinality(InputEdges) \div SplitDiv = 0
      /\ pc = "optimizer"
      /\ val_edges = <<>> /\ test_edges = <<>>)

\* C4: the loop takes at most FLAGS.epochs optimizer steps, and every step but the
\* latest reported a training loss above 0.001: no step follows a loss <= 0.001.
C4_LoopStops ==
    /\ Len(avg_costs) <= FLAGS_epochs
    /\ \A k \in 1 .. (Len(avg_costs) - 1) : avg_costs[k] > LossThreshold

C4_Witness ==
    /\ pc = "done"
    /\ Len(avg_costs) = 1
    /\ avg_costs[1] <= LossThreshold
    /\ FLAGS_epochs > 1

\* C5: on return train_edges, val_edges and test_edges are pairwise disjoint, hold no
\* edge twice, and together are exactly the unique undirected edges of the input.
C5_PositivesPartitionInput ==
    Returned =>
        /\ Rng(train_edges) \cap Rng(val_edges) = {}
        /\ Rng(train_edges) \cap Rng(test_edges) = {}
        /\ Rng(val_edges) \cap Rng(test_edges) = {}
        /\ Positives = InputEdges
        /\ Len(train_edges) + Len(val_edges) + Len(test_edges) = Cardinality(InputEdges)

C5_Witness ==
    /\ Returned
    /\ val_edges # <<>> /\ test_edges # <<>> /\ train_edges # <<>>

\* C6: adj_train[i][j] is 1 exactly when (i,j) or (j,i) is in train_edges and 0
\* otherwise; so it is symmetric, has a zero diagonal and holds no validation or
\* test positive edge.
C6_AdjTrainIsTrainEdges ==
    Returned =>
        /\ LET tr == Rng(train_edges)
           IN  \A i, j \in Nodes(num_nodes) :
                 adj_train[i][j] = IF <<i, j>> \in tr \/ <<j, i>> \in tr THEN 1 ELSE 0
        /\ \A i, j \in Nodes(num_nodes) : adj_train[i][j] = adj_train[j][i]
        /\ \A i \in Nodes(num_nodes) : adj_train[i][i] = 0
        /\ \A e \in Rng(val_edges) \cup Rng(test_edges) :
              adj_train[e[1]][e[2]] = 0 /\ adj_train[e[2]][e[1]] = 0

C6_Witness ==
    /\ Returned
    /\ val_edges # <<>> /\ test_edges # <<>>
    /\ \E i, j \in Nodes(num_nodes) : adj_train[i][j] = 1

\* the number of entries set in the training label matrix adj_train + self-loops
LabelEntries ==
    Cardinality({p \in Idx(num_nodes) : adj_label[p[1]][p[2]] # 0})

\* C7: the E of the Optimizer's pos_weight = (N^2 - E) / E and
\* norm = N^2 / (2 (N^2 - E)) is the number of entries set in the training label matrix.
C7_OptimizerCountsLabelEntries ==
    (opt.built /\ pc \in {"loop", "val", "done"}) =>
        /\ opt.pos_weight = PosWeight(num_nodes, LabelEntries)
        /\ opt.norm = Norm(num_nodes, LabelEntries)

\* C8: the label vector of get_roc_score has len(edges_pos) + len(edges_neg) entries,
\* 1 where the score vector holds a positive edge's score and 0 where it holds a
\* negative edge's score.
C8_LabelsMatchScores ==
    last_run.op = "score" =>
        /\ Len(labels_all) = Len(last_run.edges_pos) + Len(last_run.edges_neg)
        /\ Len(labels_all) = Len(preds_all)
        /\ \A k \in 1 .. Len(labels_all) :
              labels_all[k] = IF preds_all[k].kind = "pos" THEN 1 ELSE 0

\* C9: every optimizer step is fed the configured dropout and every validation or
\* test scoring is fed dropout 0.
C9_DropoutPerRun ==
    /\ last_run.op = "train" => last_run.dropout = FLAGS_dropout
    /\ last_run.op \in {"val", "test"} => last_run.dropout = 0

C9_Witness ==
    /\ last_run.op = "train"
    /\ Len(avg_costs) = 2
    /\ FLAGS_dropout > 0
    /\ last_run.dropout = FLAGS_dropout

\* the nodes without an edge in the graph given to preprocess_graph
Isolated == {i \in Nodes(num_nodes) : \A j \in Nodes(num_nodes) : adj[i][j] = 0}

\* C10: the matrix preprocess_graph returns is symmetric, its entries lie in [0,1],
\* and the row of an isolated node has one nonzero entry, a 1 on the diagonal.
C10_NormalizedAdjacency ==
    pc = "normalized" =>
        /\ \A i, j \in Nodes(num_nodes) : EntryEq(adj_norm[i][j], adj_norm[j][i])
        /\ \A i, j \in Nodes(num_nodes) : EntryInUnit(adj_norm[i][j])
        /\ \A i \in Isolated :
              /\ EntryIsOne(adj_norm[i][i])
              /\ \A j \in Nodes(num_nodes) \ {i} : adj_norm[i][j].num = 0

C10_Witness ==
    /\ pc = "normalized"
    /\ Isolated # {}
    /\ \E i, j \in Nodes(num_nodes) :
          i # j /\ adj[i][j] = 1 /\ Cardinality({k \in Nodes(num_nodes) : adj[i][k] = 1}) = 2

\* the graph given to preprocess_graph has an edge
HasEdge == \E i, j \in Nodes(num_nodes) : i # j /\ adj[i][j] = 1

ValidGraph == num_edges = MatSum(adj_orig, num_nodes)

\* a fraction is a finite number that is not negative
NonNegFinite(q) == q.den # 0 /\ (q.num = 0 \/ (q.num > 0 <=> q.den > 0))

\* C12: for every graph without self-loops the denominators of pos_weight and norm are
\* not zero, both weights are non-negative, and the cost is non-negative and finite
\* whatever the softplus sums of the parameter state are.
C12_LossNonNegativeFinite ==
    ValidGraph =>
        /\ pc = "optimizer" =>
              /\ NonNegFinite(PosWeight(num_nodes, num_edges))
              /\ NonNegFinite(Norm(num_nodes, num_edges))
        /\ opt.built =>
              /\ NonNegFinite(opt.pos_weight)
              /\ NonNegFinite(opt.norm)
              /\ \A a, b \in SoftplusSums : NonNegFinite(Cost(opt, a, b, num_nodes))

C12_Witness ==
    /\ ValidGraph
    /\ num_nodes = BigN
    /\ last_run.op = "train"
    /\ opt.built
    /\ opt.pos_weight.num > 0
    /\ Cost(opt, MaxSoftplus, MaxSoftplus, num_nodes).num > 0

\* C13: negative sampling eventually stops under fair random draws. A rejection loop has
\* no error exit and its state changes only when a draw is accepted, so it stops iff in
\* every state of the loop some pair of nodes would be accepted.
C13_SamplingCanStop ==
    /\ pc = "test_neg" =>
          \E i, j \in Nodes(num_nodes) :
              ~TestRejects(i, j, EdgesAllOf(adj, num_nodes), test_edges_false)
    /\ pc = "val_neg" =>
          \E i, j \in Nodes(num_nodes) :
              ~ValRejects(i, j, train_edges, val_edges, val_edges_false)

\* C14: every pair of the five edge sets mask_test_edges returns has its smaller node
\* first (i < j).
C14_UpperTriangular ==
    Returned =>
        \A p \in Positives \cup Rng(val_edges_false) \cup Rng(test_edges_false) : p[1] < p[2]

\* no entry of the list is a self-loop and no two entries are the same unordered pair
NoLoopNoRepeat(L) ==
    /\ \A k \in 1 .. Len(L) : L[k][1] # L[k][2]
    /\ \A k, l \in 1 .. Len(L) : k # l => (L[k] # L[l] /\ L[k] # Reverse(L[l]))

\* C15: at every point of negative sampling and on return, val_edges_false and
\* test_edges_false each hold no self-loop and no unordered pair twice.
C15_NegativesDistinct ==
    /\ NoLoopNoRepeat(test_edges_false)
    /\ NoLoopNoRepeat(val_edges_false)

C15_Witness ==
    /\ Returned
    /\ Len(test_edges_false) = 2
    /\ Len(val_edges_false) = 2
    /\ \E p \in Rng(test_edges_false) : p[1] > p[2]
    /\ Rng(val_edges_false) \cap Rng(test_edges_false) # {}

\* C16: the weight variables change only in the optimizer step, by one update; every
\* other step, the validation and the test scoring included, leaves them unchanged, and
\* when an epoch is complete the number of updates equals the number of epochs.
C16_WeightsChangeOnlyInStep ==
    [][/\ (pc = "loop" /\ pc' = "val") => weights' = weights + 1
       /\ ~(pc = "loop" /\ pc' = "val") => weights' = weights
       /\ (pc = "val" /\ pc' = "loop") => weights' = epoch']_vars

C16_Witness ==
    /\ pc = "done"
    /\ last_run.op = "test"
    /\ epoch = MaxEpochs
    /\ weights = MaxEpochs

\* C17: in each epoch the optimizer step comes before the validation scoring, only the
\* validation sets are scored while the loop runs, and once the loop is over the test
\* sets are scored, once, for every FLAGS.epochs from 0 on.
C17_ScoringOrder ==
    /\ pc = "val" => last_run.op = "train"
    /\ pc \in {"loop", "val"} => last_run.op # "test"
    /\ last_run.op = "val" =>
          last_run.edges_pos = val_edges /\ last_run.edges_neg = val_edges_false
    /\ last_run.op = "test" =>
          /\ pc \in {"done", "error"}
          /\ ~LoopContinues(epoch, FLAGS_epochs, temp_train_loss)
          /\ last_run.edges_pos = test_edges /\ last_run.edges_neg = test_edges_false
    /\ (pc \in {"done", "error"} /\ opt.built /\ last_run.op # "val") =>
          last_run.op = "test"
====
